---- MODULE Spec2Model ----
(***************************************************************************)
(* Model of tools/DataGetter.py: DataGetter.get_data, the single-pass      *)
(* reduction of an InfluxDB table of telemetry records to a track.         *)
(*                                                                         *)
(* Units.  Angles (COG) are in micro-radians, so the literal 0.2618 rad of *)
(* the source is 261800.  Positions are in whole degrees and all lie on    *)
(* one meridian (lng = 0); there the haversine formula reduces to          *)
(* R * |dlat|, and distances are whole metres.                             *)
(* A timestamp is [minute, second] within one hour.                        *)
(* An optional value is <<>> (Python None) or <<v>>.                       *)
(***************************************************************************)
EXTENDS Integers, Sequences, FiniteSets, TLC

VARIABLES pc, tables, posColumns, records, unread,
          result, result_type, prev_values, cumulative_distance, caught,
          interval, calls, ordering,
          files, default_value, now, last_call

\* the call being made: its interval argument, the number of calls of
\* get_data completed before it on this DataGetter, and how the table that
\* the query returns is ordered in time
callVars == <<interval, calls, ordering>>

\* tools/DataExporter.py: the JSON files of data_dir, the dict that is the
\* default argument of _open_json_file, the number of calls made so far
\* (also the clock of "edited"), and the last call made
exporterVars == <<files, default_value, now, last_call>>

vars == <<pc, tables, posColumns, records, unread,
          result, result_type, prev_values, cumulative_distance, caught,
          callVars, exporterVars>>

\* Bound: number of records of the table that one run may consume.
MaxLen == 3

\* Bound: number of calls of get_data on one DataGetter.
MaxCalls == 2

None == <<>>
Some(v) == <<v>>

Abs(x) == IF x < 0 THEN -x ELSE x

Last(s) == s[Len(s)]

----------------------------------------------------------------------------
(* Names used by get_data *)

LAT == "navigation.position_lat"
LON == "navigation.position_lon"

measurements ==
  << "navigation.speedOverGround_value",
     "navigation.courseOverGroundTrue_value",
     "environment.wind.angleApparent_value",
     "environment.wind.speedApparent_value",
     "environment.depth.belowTransducer_value" >>

measurement_names ==
  [m \in {measurements[i] : i \in 1..Len(measurements)} |->
     CASE m = "navigation.speedOverGround_value" -> "SOG"
       [] m = "navigation.courseOverGroundTrue_value" -> "COG"
       [] m = "environment.wind.angleApparent_value" -> "AWA"
       [] m = "environment.wind.speedApparent_value" -> "AWS"
       [] m = "environment.depth.belowTransducer_value" -> "Depth"]

sorted_names == <<"SOG", "COG", "AWA", "AWS", "Depth", "position", "Distance">>

\* abs(...) > 0.2618, in micro-radians
Threshold == 261800

\* R = 6371.0 km
EarthRadiusKm == 6371

\* R * 1000 * pi / 180 metres for one degree of latitude (pi ~ 355/113)
MetersPerDegree == (((EarthRadiusKm * 355) \div 113) * 1000) \div 180

----------------------------------------------------------------------------
(* The inputs: the records of the table that the query returns *)

Times == { [minute |-> 0,  second |-> 0],
           [minute |-> 3,  second |-> 0],
           [minute |-> 10, second |-> 0],
           [minute |-> 10, second |-> 30] }

Secs(t) == 60 * t.minute + t.second

Lats == {0, 1}
Lngs == {0}

\* 0, 1 deg, 5 deg, exactly the threshold, 20 deg, 350 deg, 359 deg
COGValues == {0, 17453, 87266, 261800, 349066, 6108652, 6265732}

\* the four measurements other than COG: all absent, or all present
NoOthers ==
  [m \in {measurements[1], measurements[3], measurements[4], measurements[5]}
     |-> None]
AllOthers ==
  [m \in {measurements[1], measurements[3], measurements[4], measurements[5]}
     |-> CASE m = measurements[1] -> Some(5)
           [] m = measurements[3] -> Some(1)
           [] m = measurements[4] -> Some(7)
           [] m = measurements[5] -> Some(12)]

Row(lat, lon, cog, others) ==
  (LAT :> lat) @@ (LON :> lon) @@ (measurements[2] :> cog) @@ others

\* rows of a table that has the position columns
PositionRows ==
  { Row(Some(lat), Some(lng), cog, NoOthers) :
      lat \in Lats, lng \in Lngs,
      cog \in {None} \cup {Some(c) : c \in COGValues} }
  \cup
  { Row(Some(lat), Some(lng), cog, AllOthers) :
      lat \in Lats, lng \in Lngs, cog \in {None, Some(0)} }
  \cup
  { Row(None, Some(0), Some(0), NoOthers),
    Row(Some(0), None, Some(0), NoOthers),
    Row(None, None, None, NoOthers) }

\* rows of a table in which no record has a position: pivot() makes no
\* navigation.position_* column
NoPositionRows ==
  { (measurements[2] :> cog) @@ NoOthers : cog \in {None, Some(0)} }

\* rows of a table in which timestamps repeat
RepeatRows ==
  { Row(Some(lat), Some(0), Some(cog), NoOthers) :
      lat \in Lats, cog \in {0, 349066} }
  \cup
  { Row(Some(0), Some(0), Some(0), AllOthers),
    Row(Some(1), Some(0), None, NoOthers),
    Row(Some(0), None, Some(0), NoOthers) }

\* the interval argument: aggregateWindow(every: interval) stamps every
\* record with a multiple of the interval
Intervals == {"10s", "10m"}
IntervalSecs(iv) == IF iv = "10m" THEN 600 ELSE 10

Records(cols) ==
  { [time |-> t, values |-> v] :
      t \in {u \in Times : Secs(u) % IntervalSecs(interval) = 0},
      v \in IF ~cols THEN NoPositionRows
            ELSE IF ordering = "strict" THEN PositionRows ELSE RepeatRows }

\* the table's records are in ascending time order, one per timestamp; in a
\* table with repeated timestamps they are in non-decreasing order
After(seq, r) ==
  IF Len(seq) = 0 THEN TRUE
  ELSE IF ordering = "strict" THEN Secs(Last(seq).time) < Secs(r.time)
  ELSE Secs(Last(seq).time) <= Secs(r.time)

----------------------------------------------------------------------------
(* The loop body of get_data, piece by piece *)

\* record.values.get(m)
Get(values, m) == IF m \in DOMAIN values THEN values[m] ELSE None

\* the record has no navigation.position_* key at all: values[...] raises
PositionKeyError(record) ==
  LAT \notin DOMAIN record.values \/ LON \notin DOMAIN record.values

\* a skip test that looks at the latitude only
MissingPosition_LatOnly(record) ==
  record.values[LAT] = None

\* values[lat] is None or values[lon] is None
MissingPosition(record) ==
  record.values[LAT] = None \/ record.values[LON] = None

\* a values dict that fills every absent measurement with 0
BuildValues_Zero(record) ==
  LET ms == {measurements[i] : i \in 1..Len(measurements)}
      long(k) == CHOOSE m \in ms : measurement_names[m] = k
  IN  [k \in {"position"} \cup {measurement_names[m] : m \in ms} |->
         IF k = "position"
           THEN [lat |-> record.values[LAT], lng |-> record.values[LON]]
           ELSE IF Get(record.values, long(k)) = None THEN 0
           ELSE record.values[long(k)][1]]

\* values = {"position": {...}} plus every measurement that is not None;
\* the two coordinates are copied as they are (optional values)
BuildValues(record) ==
  LET ms == {measurements[i] : i \in 1..Len(measurements)}
      present == {m \in ms : Get(record.values, m) # None}
      long(k) == CHOOSE m \in present : measurement_names[m] = k
  IN  [k \in {"position"} \cup {measurement_names[m] : m \in present} |->
         IF k = "position"
           THEN [lat |-> record.values[LAT], lng |-> record.values[LON]]
           ELSE record.values[long(k)][1]]

\* _compute_distance: haversine, for two positions on one meridian
compute_distance(pos1, pos2) ==
  MetersPerDegree * Abs(pos2.lat[1] - pos1.lat[1])

\* cumulative_distance after lines 83-87
Accumulate(prev, cum, values) ==
  IF prev # None
    THEN cum + compute_distance(prev[1]["position"], values["position"])
    ELSE cum

\* values["Distance"] after lines 83-87
Stamp(prev, cum, values) ==
  values @@ ("Distance" :> IF prev # None THEN Accumulate(prev, cum, values) ELSE 0)

\* a grid that follows the interval argument of the call
on_grid_Interval(rts) == Secs(rts) % IntervalSecs(interval) = 0

\* rts.minute % 10 == 0 and rts.second == 0
on_grid(rts) == rts.minute % 10 = 0 /\ rts.second = 0

\* "COG" in prev_values, which raises TypeError when prev_values is None
CogTypeError(values, prev) == "COG" \in DOMAIN values /\ prev = None

\* a comparison that takes 0 for the COG that the last kept record lacks
SignificantCOG_DefaultZero(values, prev) ==
  /\ "COG" \in DOMAIN values
  /\ Abs(values["COG"]
           - (IF "COG" \in DOMAIN prev[1] THEN prev[1]["COG"] ELSE 0))
       > Threshold

\* a comparison on the shortest circular arc, min(|a-b|, 2 pi - |a-b|)
SignificantCOG_ShortestArc(values, prev) ==
  /\ "COG" \in DOMAIN values
  /\ "COG" \in DOMAIN prev[1]
  /\ LET d == Abs(values["COG"] - prev[1]["COG"])
     IN  (IF d < 6283185 - d THEN d ELSE 6283185 - d) > Threshold

\* "COG" in values and "COG" in prev_values and abs(difference) > 0.2618
SignificantCOG(values, prev) ==
  /\ "COG" \in DOMAIN values
  /\ "COG" \in DOMAIN prev[1]
  /\ Abs(values["COG"] - prev[1]["COG"]) > Threshold

\* the point stored for a significant course change
Partial(values) ==
  [k \in {"position", "COG"} |-> values[k]]

\* a dict that keeps the first value stored under a key
Put_KeepFirst(dict, ts, data) ==
  IF \E i \in 1..Len(dict) : dict[i].ts = ts
    THEN dict
    ELSE Append(dict, [ts |-> ts, data |-> data])

\* a dict that puts a new key in front
Put_Front(dict, ts, data) ==
  IF \E i \in 1..Len(dict) : dict[i].ts = ts
    THEN [i \in 1..Len(dict) |->
            IF dict[i].ts = ts THEN [ts |-> ts, data |-> data] ELSE dict[i]]
    ELSE <<[ts |-> ts, data |-> data]>> \o dict

\* result[record_ts] = data, on a dict that keeps insertion order
Put(dict, ts, data) ==
  IF \E i \in 1..Len(dict) : dict[i].ts = ts
    THEN [i \in 1..Len(dict) |->
            IF dict[i].ts = ts THEN [ts |-> ts, data |-> data] ELSE dict[i]]
    ELSE Append(dict, [ts |-> ts, data |-> data])

\* One iteration of "for record in table.records", as a function of the
\* state st = [result, prev_values, cumulative_distance] and the record.
\* outcome is "continue", or the exception that leaves the loop.
Body(st, record) ==
  IF PositionKeyError(record)
    THEN [result |-> st.result,
          prev_values |-> st.prev_values,
          cumulative_distance |-> st.cumulative_distance,
          outcome |-> "KeyError"]
  ELSE IF MissingPosition(record)
    THEN [result |-> st.result,
          prev_values |-> st.prev_values,
          cumulative_distance |-> st.cumulative_distance,
          outcome |-> "continue"]
  ELSE
    LET bare   == BuildValues(record)
        cum    == Accumulate(st.prev_values, st.cumulative_distance, bare)
        values == Stamp(st.prev_values, st.cumulative_distance, bare)
    IN  IF on_grid(record.time)
          THEN [result |-> Put(st.result, record.time, values),
                prev_values |-> Some(values),
                cumulative_distance |-> cum,
                outcome |-> "continue"]
        ELSE IF CogTypeError(values, st.prev_values)
          THEN [result |-> st.result,
                prev_values |-> st.prev_values,
                cumulative_distance |-> cum,
                outcome |-> "TypeError"]
        ELSE IF st.prev_values # None /\ SignificantCOG(values, st.prev_values)
          THEN [result |-> Put(st.result, record.time, Partial(values)),
                prev_values |-> Some(Partial(values)),
                cumulative_distance |-> cum,
                outcome |-> "continue"]
        ELSE [result |-> st.result,
              prev_values |-> st.prev_values,
              cumulative_distance |-> cum,
              outcome |-> "continue"]

\* lines 104-107: each stored point projected on sorted_names, with its
\* timestamp; keys is the order of the fields of the output record
Flatten(dict) ==
  [i \in 1..Len(dict) |->
     [timestamp |-> dict[i].ts,
      keys |-> SelectSeq(sorted_names, LAMBDA key : key \in DOMAIN dict[i].data),
      data |-> [key \in {sorted_names[j] : j \in 1..Len(sorted_names)}
                          \cap DOMAIN dict[i].data |-> dict[i].data[key]]]]

\* the loop over table.records, from state st, until the records end or an
\* exception leaves the loop
RECURSIVE RunLoop(_, _)
RunLoop(st, seq) ==
  IF Len(seq) = 0 THEN st
  ELSE LET nx == Body(st, Head(seq))
       IN  IF nx.outcome = "continue" THEN RunLoop(nx, Tail(seq)) ELSE nx

\* the value get_data returns for one table with the records seq: the
\* flattened list, or the dict built so far when an exception was caught
GetData(seq) ==
  LET st == RunLoop([result |-> <<>>, prev_values |-> None,
                     cumulative_distance |-> 0, outcome |-> "continue"], seq)
  IN  IF st.outcome = "continue" THEN Flatten(st.result) ELSE st.result

----------------------------------------------------------------------------
(* The files of DataExporter *)

\* A JSON document (a dict) with the keys the exporter uses, each absent
\* (None) or present: "points" is a list of points, "live" is
\* [id, pointCount], "tracks" is the list of [id, pointCount] of tracks.json
\* (kind "list") or the dict {"edited": time} of update.json (kind "dict").
EmptyDoc == [points |-> None, tracks |-> None, live |-> None]

TrackIds == {"A", "B"}

\* a data_dir without files: a file is None (missing, or not decodable as
\* JSON, which _open_json_file treats alike) or <<document>>
EmptyDir ==
  [tracks_file |-> None, update_file |-> None,
   track |-> [t \in TrackIds |-> None]]

\* update_index is the argument update_tracks_index of extend_track, FALSE
\* for a method without it
\* io is the I/O error that the call met on the track's file ("none" for no
\* error), raised tells whether the call raised to its caller
NoCall ==
  [op |-> "none", id |-> "none", update_index |-> FALSE,
   io |-> "none", raised |-> FALSE]

\* no DataExporter call has been made
ExporterAtRest ==
  /\ files = EmptyDir
  /\ default_value = EmptyDoc
  /\ now = 0
  /\ last_call = NoCall

----------------------------------------------------------------------------
(* get_data as a state machine *)

Init ==
  /\ pc = "query"
  /\ tables = 0
  /\ posColumns = TRUE
  /\ records = <<>>
  /\ unread = <<>>
  /\ result = <<>>
  /\ result_type = "dict"
  /\ prev_values = None
  /\ cumulative_distance = 0
  /\ caught = "none"
  /\ interval \in Intervals
  /\ calls = 0
  /\ ordering = "strict"
  /\ ExporterAtRest

\* the same, for a query whose table repeats timestamps
InitRepeat ==
  /\ pc = "query"
  /\ tables = 0
  /\ posColumns = TRUE
  /\ records = <<>>
  /\ unread = <<>>
  /\ result = <<>>
  /\ result_type = "dict"
  /\ prev_values = None
  /\ cumulative_distance = 0
  /\ caught = "none"
  /\ interval \in Intervals
  /\ calls = 0
  /\ ordering = "repeat"
  /\ ExporterAtRest

\* tables = query_api.query(query): n tables; cols tells whether the one
\* table has position columns.  More than one table raises, no table skips
\* the loop.
Query(n, cols) ==
  /\ pc = "query"
  /\ tables' = n
  /\ posColumns' = cols
  /\ IF n > 1
       THEN /\ caught' = "Exception"
            /\ pc' = "returned"
            /\ UNCHANGED <<result, result_type>>
       ELSE IF n = 0
         THEN /\ result' = Flatten(result)
              /\ result_type' = "list"
              /\ pc' = "returned"
              /\ UNCHANGED caught
         ELSE /\ pc' = "records"
              /\ UNCHANGED <<result, result_type, caught>>
  /\ UNCHANGED <<records, unread, prev_values, cumulative_distance, callVars,
                 exporterVars>>

\* one iteration of the loop over table.records; an exception is caught by
\* "except" and "finally" returns the dict built so far
Record(r) ==
  /\ pc = "records"
  /\ Len(records) < MaxLen
  /\ After(records, r)
  /\ records' = Append(records, r)
  /\ LET st == [result |-> result, prev_values |-> prev_values,
                cumulative_distance |-> cumulative_distance]
         nx == Body(st, r)
     IN  /\ result' = nx.result
         /\ prev_values' = nx.prev_values
         /\ cumulative_distance' = nx.cumulative_distance
         /\ IF nx.outcome = "continue"
              THEN UNCHANGED <<pc, caught>>
              ELSE /\ pc' = "returned"
                   /\ caught' = IF nx.outcome = "KeyError"
                                  THEN "KeyError" ELSE "Exception"
  /\ UNCHANGED <<tables, posColumns, unread, result_type, callVars,
                 exporterVars>>

\* the loop ends, the result is flattened and returned
EndOfRecords ==
  /\ pc = "records"
  /\ result' = Flatten(result)
  /\ result_type' = "list"
  /\ pc' = "returned"
  /\ UNCHANGED <<tables, posColumns, records, unread, prev_values,
                 cumulative_distance, caught, callVars,
                 exporterVars>>

\* a record of the table that the loop never reached, because an exception
\* left the loop before it
Unread(r) ==
  /\ pc = "returned"
  /\ tables = 1
  /\ caught # "none"
  /\ Len(records) + Len(unread) < MaxLen
  /\ After(records \o unread, r)
  /\ unread' = Append(unread, r)
  /\ UNCHANGED <<pc, tables, posColumns, records, result, result_type,
                 prev_values, cumulative_distance, caught, callVars,
                 exporterVars>>

Next ==
  \/ \E n \in 0..2, cols \in BOOLEAN : (n = 1 \/ cols) /\ Query(n, cols)
  \/ \E r \in Records(posColumns) : Record(r)
  \/ EndOfRecords
  \/ \E r \in Records(posColumns) : Unread(r)

Spec == Init /\ [][Next]_vars

\* tables that repeat timestamps
SpecRepeat == InitRepeat /\ [][Next]_vars

\* locals that keep the distance state of the previous call
Locals_Stale ==
  [result |-> <<>>, prev_values |-> prev_values,
   cumulative_distance |-> cumulative_distance]

\* the locals of get_data at the start of a call: result = {} (line 54),
\* prev_values = None and cumulative_distance = 0.0 (lines 61-62)
Locals ==
  [result |-> <<>>, prev_values |-> None, cumulative_distance |-> 0]

\* the caller calls get_data again on the same DataGetter, with interval iv
NewRun(iv) ==
  /\ pc = "returned"
  /\ calls + 1 < MaxCalls
  /\ calls' = calls + 1
  /\ interval' = iv
  /\ pc' = "query"
  /\ tables' = 0
  /\ posColumns' = TRUE
  /\ records' = <<>>
  /\ unread' = <<>>
  /\ result' = Locals.result
  /\ result_type' = "dict"
  /\ prev_values' = Locals.prev_values
  /\ cumulative_distance' = Locals.cumulative_distance
  /\ caught' = "none"
  /\ UNCHANGED <<ordering, exporterVars>>

NextRuns ==
  \/ Next
  \/ \E iv \in Intervals : NewRun(iv)

\* several calls of get_data, one after the other
SpecRuns == Init /\ [][NextRuns]_vars

----------------------------------------------------------------------------
(* Vocabulary of the properties *)

\* the whole table: the records the loop consumed, then those it never reached
Input == records \o unread

\* the record carries both coordinates
HasCoords(r) ==
  /\ LAT \in DOMAIN r.values
  /\ LON \in DOMAIN r.values
  /\ r.values[LAT] # None
  /\ r.values[LON] # None

\* timestamp of the i-th point of the result, dict or list
EntryTs(i) ==
  IF result_type = "dict" THEN result[i].ts ELSE result[i].timestamp

\* the step just taken was one loop iteration, on the record Last(records')
LoopStep == pc = "records" /\ Len(records') = Len(records) + 1

\* the loop iteration just taken stored a point
Stored == Len(result') = Len(result) + 1

\* shortest circular arc between two headings, min(|a-b|, 2 pi - |a-b|)
angular_difference(a, b) ==
  LET d == Abs(a - b)
  IN  IF d < 6283185 - d THEN d ELSE 6283185 - d

----------------------------------------------------------------------------
(* Properties *)

\* C1: the first retained record has Distance 0; every later retained record
\* has Distance = Distance of the previously retained record + distance
\* between the two positions; and right after a record is retained,
\* cumulative_distance equals its Distance.
C1_DistanceChain ==
  /\ \A i \in 1..Len(result) :
       /\ "Distance" \in DOMAIN result[i].data
       /\ IF i = 1
            THEN result[i].data["Distance"] = 0
            ELSE /\ "Distance" \in DOMAIN result[i-1].data
                 /\ result[i].data["Distance"] =
                      result[i-1].data["Distance"]
                        + compute_distance(result[i-1].data["position"],
                                           result[i].data["position"])
  /\ (pc = "records" /\ Len(records) > 0 /\ Len(result) > 0
        /\ EntryTs(Len(result)) = Last(records).time)
       => /\ "Distance" \in DOMAIN Last(result).data
          /\ cumulative_distance = Last(result).data["Distance"]

\* C2: for two on-grid records adjacent in the output track, the difference
\* of their Distance values is the distance between their positions, also
\* when dropped off-grid records lay between them in the input.
C2_GridPairDistance ==
  \A i \in 1..(Len(result) - 1) :
    (on_grid(EntryTs(i)) /\ on_grid(EntryTs(i + 1)))
      => result[i+1].data["Distance"] - result[i].data["Distance"]
           = compute_distance(result[i].data["position"],
                              result[i+1].data["position"])

\* C3: an off-grid record with a position is retained if and only if it and
\* the most recently retained record both carry COG and the shortest
\* circular arc between the two COG values is strictly greater than the
\* threshold; otherwise it is dropped.
C3_RetainedIffCircularChange ==
  [][ (LoopStep /\ HasCoords(Last(records'))
         /\ ~on_grid(Last(records').time))
      => (Stored <=>
            /\ prev_values # None
            /\ Last(records').values[measurements[2]] # None
            /\ "COG" \in DOMAIN prev_values[1]
            /\ angular_difference(Last(records').values[measurements[2]][1],
                                  prev_values[1]["COG"]) > Threshold) ]_vars

\* C4: every record of the table that has both coordinates and an on-grid
\* timestamp is in the returned track as a full keyframe: position,
\* Distance and every optional field present on the input record.
C4_GridRecordKeptInFull ==
  pc = "returned" =>
    \A k \in 1..Len(Input) :
      (HasCoords(Input[k]) /\ on_grid(Input[k].time)) =>
        \E i \in 1..Len(result) :
          /\ EntryTs(i) = Input[k].time
          /\ "Distance" \in DOMAIN result[i].data
          /\ "position" \in DOMAIN result[i].data
          /\ result[i].data["position"] =
               [lat |-> Input[k].values[LAT], lng |-> Input[k].values[LON]]
          /\ \A j \in 1..Len(measurements) :
               Get(Input[k].values, measurements[j]) # None =>
                 /\ measurement_names[measurements[j]] \in DOMAIN result[i].data
                 /\ result[i].data[measurement_names[measurements[j]]] =
                      Input[k].values[measurements[j]][1]

\* C5: every partial keyframe of the output (a point with an off-grid
\* timestamp) carries exactly the fields position, COG and Distance.
C5_PartialHasDistance ==
  \A i \in 1..Len(result) :
    ~on_grid(EntryTs(i)) =>
      DOMAIN result[i].data = {"position", "COG", "Distance"}

\* C6: the first record of the output has Distance 0, every retained record
\* has a Distance, and Distance never decreases along the output.
C6_DistanceMonotone ==
  /\ Len(result) > 0 =>
       /\ "Distance" \in DOMAIN result[1].data
       /\ result[1].data["Distance"] = 0
  /\ \A i \in 2..Len(result) :
       /\ "Distance" \in DOMAIN result[i].data
       /\ "Distance" \in DOMAIN result[i-1].data
       /\ result[i].data["Distance"] >= result[i-1].data["Distance"]

\* C7: an off-grid record processed while nothing has been retained yet is
\* discarded and the loop continues with the next record, whether or not
\* the record carries COG.
C7_OffGridBeforeFirstKept ==
  [][ (LoopStep /\ prev_values = None /\ HasCoords(Last(records'))
         /\ ~on_grid(Last(records').time))
      => (pc' = "records" /\ caught' = "none"
            /\ result' = result /\ prev_values' = None) ]_vars

\* C8: when the query yields more than one table, get_data does not return
\* a value to its caller (the error leaves get_data instead).
C8_MultipleTablesSurfaced ==
  tables > 1 => pc # "returned"

\* C9: records whose latitude or longitude is None leave no trace: result,
\* prev_values and cumulative_distance are what the loop computes on the
\* same table with those records removed, and so is the returned value.
C9_MissingPositionNoEffect ==
  (tables = 1 /\ posColumns) =>
    LET without == SelectSeq(Input, HasCoords)
        st == RunLoop([result |-> <<>>, prev_values |-> None,
                       cumulative_distance |-> 0, outcome |-> "continue"],
                      SelectSeq(records, HasCoords))
    IN  /\ prev_values = st.prev_values
        /\ cumulative_distance = st.cumulative_distance
        /\ IF pc = "returned"
             THEN result = GetData(without)
             ELSE result = st.result

\* C9 witness: a record without longitude or latitude was processed between
\* two retained records, and the track was returned
C9_Witness ==
  /\ pc = "returned"
  /\ result_type = "list"
  /\ Len(records) = 3
  /\ ~HasCoords(records[2])
  /\ Len(result) = 2
  /\ cumulative_distance > 0

\* C10: every point of the output, full or partial, has a position with
\* both lat and lng present.
C10_PositionComplete ==
  \A i \in 1..Len(result) :
    /\ "position" \in DOMAIN result[i].data
    /\ result[i].data["position"].lat # None
    /\ result[i].data["position"].lng # None

\* C10 witness: a returned track with a full and a partial keyframe, from a
\* table that had a record with latitude but no longitude
C10_Witness ==
  /\ pc = "returned"
  /\ result_type = "list"
  /\ \E i, j \in 1..Len(result) :
       on_grid(result[i].timestamp) /\ ~on_grid(result[j].timestamp)
  /\ \E k \in 1..Len(records) :
       records[k].values[LAT] # None /\ records[k].values[LON] = None

\* C11: an off-grid record with COG 5 deg (0.087266 rad) that follows a
\* retained record with COG 350 deg (6.108652 rad) is stored in the track.
C11_WrapChangeRetained ==
  [][ (LoopStep /\ HasCoords(Last(records'))
         /\ ~on_grid(Last(records').time)
         /\ Last(records').values[measurements[2]] = Some(87266)
         /\ prev_values # None
         /\ "COG" \in DOMAIN prev_values[1]
         /\ prev_values[1]["COG"] = 6108652)
      => (/\ Stored
          /\ Last(result').ts = Last(records').time
          /\ Last(result').data["COG"] = 87266
          /\ pc' = "records") ]_vars

\* C11 witness: a returned track in which an off-grid point with COG 5 deg
\* follows a point with COG 350 deg
C11_Witness ==
  /\ pc = "returned"
  /\ result_type = "list"
  /\ \E i \in 2..Len(result) :
       /\ ~on_grid(result[i].timestamp)
       /\ "COG" \in DOMAIN result[i-1].data
       /\ result[i-1].data["COG"] = 6108652
       /\ result[i].data["COG"] = 87266

\* C12: the value a call of get_data returns is a function of the table it
\* reads, whatever calls were made before it on the same DataGetter: it is
\* the value computed from the initial reducer state on that table.
C12_RunIsFunctionOfInput ==
  pc = "returned" =>
    result = IF tables = 1 THEN GetData(Input) ELSE <<>>

\* C12 witness: a second call on the same DataGetter returned a track of
\* two points or more with a positive distance
C12_Witness ==
  /\ calls = 1
  /\ pc = "returned"
  /\ result_type = "list"
  /\ Len(result) >= 2
  /\ cumulative_distance > 0

\* C13: every record of the returned list gives its fields in the order
\* SOG, COG, AWA, AWS, Depth, position, Distance, restricted to the fields
\* present, the timestamp apart from them; a partial keyframe (off-grid
\* timestamp) projects to exactly position, COG, Distance.
C13_CanonicalProjection ==
  result_type = "list" =>
    \A i \in 1..Len(result) :
      /\ result[i].keys =
           SelectSeq(sorted_names, LAMBDA key : key \in DOMAIN result[i].data)
      /\ \A j \in 1..Len(result[i].keys) : result[i].keys[j] # "timestamp"
      /\ ~on_grid(result[i].timestamp) =>
           {result[i].keys[j] : j \in 1..Len(result[i].keys)}
             = {"position", "COG", "Distance"}

\* C14: every field among SOG, COG, AWA, AWS, Depth and position of an
\* output record is present on the input record with the same timestamp,
\* with the same value.
C14_NoFabricatedField ==
  \A i \in 1..Len(result) :
    \E k \in 1..Len(records) :
      /\ records[k].time = EntryTs(i)
      /\ HasCoords(records[k])
      /\ "position" \in DOMAIN result[i].data =>
           result[i].data["position"] =
             [lat |-> records[k].values[LAT], lng |-> records[k].values[LON]]
      /\ \A j \in 1..Len(measurements) :
           measurement_names[measurements[j]] \in DOMAIN result[i].data =>
             /\ Get(records[k].values, measurements[j]) # None
             /\ result[i].data[measurement_names[measurements[j]]] =
                  records[k].values[measurements[j]][1]

\* C14 witness: a returned track with one point that has SOG and one point
\* that has neither SOG nor COG
C14_Witness ==
  /\ pc = "returned"
  /\ result_type = "list"
  /\ \E i, j \in 1..Len(result) :
       /\ "SOG" \in DOMAIN result[i].data
       /\ "SOG" \notin DOMAIN result[j].data
       /\ "COG" \notin DOMAIN result[j].data

\* C15: the track is a subsequence of the records processed: its points
\* are records of the table, in the order in which they were processed, so
\* its timestamps ascend.
C15_TrackIsSubsequence ==
  /\ \A i \in 1..Len(result) :
       \E k \in 1..Len(records) : records[k].time = EntryTs(i)
  /\ \A i, j \in 1..Len(result) :
       i < j =>
         /\ Secs(EntryTs(i)) < Secs(EntryTs(j))
         /\ \E k, l \in 1..Len(records) :
              /\ k < l
              /\ records[k].time = EntryTs(i)
              /\ records[l].time = EntryTs(j)

\* C15 witness: a returned track of three points
C15_Witness ==
  /\ pc = "returned"
  /\ result_type = "list"
  /\ Len(result) = 3

\* a is a prefix of b
IsPrefix(a, b) == Len(a) <= Len(b) /\ SubSeq(b, 1, Len(a)) = a

\* the timestamps of seq ascend strictly
StrictlyAscending(seq) ==
  \A k \in 1..(Len(seq) - 1) : Secs(seq[k].time) < Secs(seq[k+1].time)

C17_GridIndependentOfInterval ==
  [][ (LoopStep /\ HasCoords(Last(records')))
      => ( (Last(records').time.minute % 10 = 0
              /\ Last(records').time.second = 0)
           <=> (/\ Stored
                /\ Last(result').ts = Last(records').time
                /\ "Distance" \in DOMAIN Last(result').data) ) ]_vars

\* C17 witness: a call with interval 10s returned a track that has the
\* 00:10:00 record in full and not the 00:10:30 record
C17_Witness ==
  /\ interval = "10s"
  /\ pc = "returned"
  /\ result_type = "list"
  /\ \E k \in 1..Len(records) :
       /\ HasCoords(records[k])
       /\ records[k].time = [minute |-> 10, second |-> 30]
  /\ \E i \in 1..Len(result) :
       /\ result[i].timestamp = [minute |-> 10, second |-> 0]
       /\ "Distance" \in DOMAIN result[i].data
  /\ \A i \in 1..Len(result) :
       result[i].timestamp # [minute |-> 10, second |-> 30]

\* the timestamps of the points of dict are pairwise distinct
DistinctKeys(dict) ==
  \A i, j \in 1..Len(dict) : dict[i].ts = dict[j].ts => i = j

Carries(dict, r) ==
  \E i \in 1..Len(dict) :
    /\ dict[i].ts = r.time
    /\ dict[i].data["position"] =
         [lat |-> r.values[LAT], lng |-> r.values[LON]]
    /\ r.values[measurements[2]] # None =>
         /\ "COG" \in DOMAIN dict[i].data
         /\ dict[i].data["COG"] = r.values[measurements[2]][1]

----------------------------------------------------------------------------
(* tools/DataExporter.py *)

\* the most DataExporter calls made in one process
MaxOps == 4

getterVars == <<pc, tables, posColumns, records, unread,
                result, result_type, prev_values, cumulative_distance,
                caught, callVars>>

\* the value of "tracks" in tracks.json (a list of entries) and in
\* update.json (a dict with the key "edited")
ListOf(items) == [kind |-> "list", items |-> items, edited |-> 0]
DictOf(time) == [kind |-> "dict", items |-> <<>>, edited |-> time]

\* a point written for a track by the call made at a time
Point(track_id, time) == [track |-> track_id, at |-> time]

\* a data_dir that holds track A with one point, indexed
PopulatedDir ==
  [tracks_file |->
     Some([EmptyDoc EXCEPT
             !.tracks = Some(ListOf(<<[id |-> "A", pointCount |-> 1]>>))]),
   update_file |-> Some([EmptyDoc EXCEPT !.tracks = Some(DictOf(0))]),
   track |-> [t \in TrackIds |->
                IF t = "A"
                  THEN Some([EmptyDoc EXCEPT
                               !.points = Some(<<Point("A", 0)>>)])
                  ELSE None]]

InitialDirs == {EmptyDir, PopulatedDir}

\* the exporter's world: the files and the default_value dict
World ==
  [files |-> files, default_value |-> default_value, raised |-> FALSE]

\* _open_json_file in mode 'r': the parsed file, or, for a missing or
\* undecodable file, the default_value dict itself, which every call shares
open_json_file(S, file) ==
  IF file = None
    THEN [data |-> S.default_value, shared |-> TRUE]
    ELSE [data |-> file[1], shared |-> FALSE]

\* a change made to the dict that open_json_file returned changes
\* default_value when that dict is the shared one
Sync(S, o, data) ==
  IF o.shared THEN [S EXCEPT !.default_value = data] ELSE S

\* _write_json_file on tracks.json ("tracks_file") or update.json
Write(S, f, data) == [S EXCEPT !.files[f] = Some(data)]

\* _write_json_file on the file of a track
WriteTrack(S, track_id, data) ==
  [S EXCEPT !.files.track[track_id] = Some(data)]

\* tracks = index_data["tracks"] if "tracks" in index_data else []
TracksOf(index_data) ==
  IF index_data.tracks = None THEN <<>> ELSE index_data.tracks[1].items

\* _get_track: the place of the first entry with the id, 0 for None
get_track(track_id, tracks) ==
  IF \E i \in 1..Len(tracks) : tracks[i].id = track_id
    THEN CHOOSE i \in 1..Len(tracks) :
           /\ tracks[i].id = track_id
           /\ \A j \in 1..(i - 1) : tracks[j].id # track_id
    ELSE 0

\* an index update that appends an entry also when the track has one
update_tracks_index_Append(S, track_id, point_count, time) ==
  LET o1 == open_json_file(S, S.files.tracks_file)
      tracks2 == Append(TracksOf(o1.data),
                        [id |-> track_id, pointCount |-> point_count])
      index_data == [o1.data EXCEPT !.tracks = Some(ListOf(tracks2))]
      S1 == Write(Sync(S, o1, index_data), "tracks_file", index_data)
      o2 == open_json_file(S1, S1.files.update_file)
  IN  IF o2.data.tracks = None
        THEN S1
        ELSE IF o2.data.tracks[1].kind # "dict"
               THEN S1
               ELSE LET update_data ==
                          [o2.data EXCEPT !.tracks = Some(DictOf(time))]
                    IN  Write(Sync(S1, o2, update_data),
                              "update_file", update_data)

\* update_tracks_index: sets or appends the entry and writes tracks.json,
\* then sets tracks.edited in update.json; update_data["tracks"]["edited"]
\* raises when update_data has no "tracks" (KeyError) or a list there
\* (TypeError), which the except clause only prints
update_tracks_index(S, track_id, point_count, time) ==
  LET o1 == open_json_file(S, S.files.tracks_file)
      tracks == TracksOf(o1.data)
      i == get_track(track_id, tracks)
      tracks2 ==
        IF i # 0
          THEN [tracks EXCEPT ![i].pointCount = point_count]
          ELSE Append(tracks, [id |-> track_id, pointCount |-> point_count])
      index_data == [o1.data EXCEPT !.tracks = Some(ListOf(tracks2))]
      S1 == Write(Sync(S, o1, index_data), "tracks_file", index_data)
      o2 == open_json_file(S1, S1.files.update_file)
  IN  IF o2.data.tracks = None
        THEN S1
        ELSE IF o2.data.tracks[1].kind # "dict"
               THEN S1
               ELSE LET update_data ==
                          [o2.data EXCEPT !.tracks = Some(DictOf(time))]
                    IN  Write(Sync(S1, o2, update_data),
                              "update_file", update_data)

\* the I/O of extend_track on the track's file: no error; an error other
\* than FileNotFoundError and JSONDecodeError while reading it; an error
\* when opening it for writing; an error in json.dump, after open(..., 'w')
\* has truncated it
IOs == {"none", "read", "open", "dump"}

\* an exception that leaves the method
Except_Raise(S) == [S EXCEPT !.raised = TRUE]

\* except Exception as e: print(...), after which the method returns
Except(S) == S

\* extend_track
extend_track(S, track_id, points_data, update_index, time, io) ==
  IF io = "read" THEN Except(S)
  ELSE
  LET o == open_json_file(S, S.files.track[track_id])
      existing_points ==
        IF o.data.points = None THEN <<>> ELSE o.data.points[1]
      existing_data ==
        [o.data EXCEPT !.points = Some(existing_points \o points_data)]
      point_count == Len(existing_points \o points_data)
      S0 == Sync(S, o, existing_data)
      S1 == WriteTrack(S0, track_id, existing_data)
  IN  IF io = "open" THEN Except(S0)
      ELSE IF io = "dump"
        THEN Except([S0 EXCEPT !.files.track[track_id] = None])
      ELSE IF update_index
        THEN update_tracks_index(S1, track_id, point_count, time)
        ELSE LET o2 == open_json_file(S1, S1.files.update_file)
             IN  IF o2.data.live = None
                   THEN S1
                   ELSE IF o2.data.live[1].id # track_id
                          THEN S1
                          ELSE LET update_data ==
                                     [o2.data EXCEPT
                                        !.live[1].pointCount = point_count]
                               IN  Write(Sync(S1, o2, update_data),
                                         "update_file", update_data)

\* start_live_track
start_live_track(S, track_id, time) ==
  LET o0 == open_json_file(S, S.files.tracks_file)
      tracks == TracksOf(o0.data)
      i == get_track(track_id, tracks)
      previous_point_count == IF i # 0 THEN tracks[i].pointCount ELSE 0
      S1 == update_tracks_index(S, track_id, 0, time)
      o3 == open_json_file(S1, S1.files.update_file)
      existing_update_data ==
        [o3.data EXCEPT
           !.live = Some([id |-> track_id,
                          pointCount |-> previous_point_count])]
  IN  Write(Sync(S1, o3, existing_update_data),
            "update_file", existing_update_data)

\* end_live_track
end_live_track(S) ==
  LET o == open_json_file(S, S.files.update_file)
  IN  IF o.data.live = None
        THEN S
        ELSE
          LET live == o.data.live[1]
              update_data == [o.data EXCEPT !.live = None]
              S1 == Write(Sync(S, o, update_data),
                          "update_file", update_data)
              o2 == open_json_file(S1, S1.files.tracks_file)
              tracks == TracksOf(o2.data)
              i == get_track(live.id, tracks)
          IN  IF i = 0
                THEN S1
                ELSE LET index_data ==
                           [o2.data EXCEPT
                              !.tracks[1].items[i].pointCount =
                                 live.pointCount]
                     IN  Write(Sync(S1, o2, index_data),
                               "tracks_file", index_data)

\* remove_track: os.remove of the track's file, then tracks.json without
\* the entries of the id; update.json is not opened
remove_track(S, track_id) ==
  LET S0 == [S EXCEPT !.files.track[track_id] = None]
      o == open_json_file(S0, S0.files.tracks_file)
      tracks == TracksOf(o.data)
      kept == SelectSeq(tracks, LAMBDA track : track.id # track_id)
      index_data == [o.data EXCEPT !.tracks = Some(ListOf(kept))]
  IN  Write(Sync(S0, o, index_data), "tracks_file", index_data)

----------------------------------------------------------------------------
(* DataExporter as a state machine: one action per public method *)

InitExporter ==
  /\ pc = "query"
  /\ tables = 0
  /\ posColumns = TRUE
  /\ records = <<>>
  /\ unread = <<>>
  /\ result = <<>>
  /\ result_type = "dict"
  /\ prev_values = None
  /\ cumulative_distance = 0
  /\ caught = "none"
  /\ interval = "10m"
  /\ calls = 0
  /\ ordering = "strict"
  /\ files \in InitialDirs
  /\ default_value = EmptyDoc
  /\ now = 0
  /\ last_call = NoCall

\* a call returned and left the world S
Returned(call, S) ==
  /\ files' = S.files
  /\ default_value' = S.default_value
  /\ now' = now + 1
  /\ last_call' = [call EXCEPT !.raised = S.raised]
  /\ UNCHANGED getterVars

\* a call of a method without the argument update_tracks_index
Call(op, track_id) ==
  [op |-> op, id |-> track_id, update_index |-> FALSE,
   io |-> "none", raised |-> FALSE]

ExtendTrack(track_id, update_index) ==
  /\ now < MaxOps
  /\ Returned([op |-> "extend_track", id |-> track_id,
               update_index |-> update_index,
               io |-> "none", raised |-> FALSE],
              extend_track(World, track_id, <<Point(track_id, now + 1)>>,
                           update_index, now + 1, "none"))

UpdateTracksIndex(track_id, point_count) ==
  /\ now < MaxOps
  /\ Returned(Call("update_tracks_index", track_id),
              update_tracks_index(World, track_id, point_count, now + 1))

StartLiveTrack(track_id) ==
  /\ now < MaxOps
  /\ Returned(Call("start_live_track", track_id),
              start_live_track(World, track_id, now + 1))

EndLiveTrack ==
  /\ now < MaxOps
  /\ Returned(Call("end_live_track", "none"), end_live_track(World))

RemoveTrack(track_id) ==
  /\ now < MaxOps
  /\ Returned(Call("remove_track", track_id), remove_track(World, track_id))

NextExporter ==
  \/ \E t \in TrackIds, u \in BOOLEAN : ExtendTrack(t, u)
  \/ \E t \in TrackIds, n \in {0, 2} : UpdateTracksIndex(t, n)
  \/ \E t \in TrackIds : StartLiveTrack(t)
  \/ EndLiveTrack
  \/ \E t \in TrackIds : RemoveTrack(t)

SpecExporter == InitExporter /\ [][NextExporter]_vars

\* the calls of live sessions only: start_live_track,
\* extend_track(..., update_tracks_index=False) and end_live_track
NextLive ==
  \/ \E t \in TrackIds : StartLiveTrack(t)
  \/ \E t \in TrackIds : ExtendTrack(t, FALSE)
  \/ EndLiveTrack

SpecLive == InitExporter /\ [][NextLive]_vars

\* the calls that write tracks: every public method but update_tracks_index
NextTracks ==
  \/ \E t \in TrackIds, u \in BOOLEAN : ExtendTrack(t, u)
  \/ \E t \in TrackIds : StartLiveTrack(t)
  \/ EndLiveTrack
  \/ \E t \in TrackIds : RemoveTrack(t)

SpecTracks == InitExporter /\ [][NextTracks]_vars

\* the k calls extend_track(track_id, [point], update_tracks_index=False)
\* of a live session, the first at the given time
RECURSIVE live_points(_, _, _, _)
live_points(S, track_id, k, time) ==
  IF k = 0 THEN S
  ELSE live_points(extend_track(S, track_id, <<Point(track_id, time)>>,
                                FALSE, time, "none"),
                   track_id, k - 1, time + 1)

\* a complete live session with k points: start_live_track, the k calls of
\* extend_track, end_live_track
live_session(S, track_id, k, time) ==
  end_live_track(live_points(start_live_track(S, track_id, time),
                             track_id, k, time + 1))

LiveSession(track_id, k) ==
  /\ now + k + 2 <= MaxOps
  /\ LET S == live_session(World, track_id, k, now + 1)
     IN  /\ files' = S.files
         /\ default_value' = S.default_value
  /\ now' = now + k + 2
  /\ last_call' = Call("live_session", track_id)
  /\ UNCHANGED getterVars

\* single calls and complete live sessions, in any order
NextSessions ==
  \/ NextExporter
  \/ \E t \in TrackIds, k \in 0..MaxOps : LiveSession(t, k)

SpecSessions == InitExporter /\ [][NextSessions]_vars

\* a process that has made no DataExporter call, on an empty data_dir
FreshWorld ==
  [files |-> EmptyDir, default_value |-> EmptyDoc, raised |-> FALSE]

\* default_value is created once, when the class is defined, and is shared
\* by all DataExporter objects of the process: what one call on a
\* DataExporter of another, empty data_dir leaves in it
OtherDirDefaults ==
  {extend_track(FreshWorld, t, <<Point(t, 0)>>, u, 0, "none").default_value :
     t \in TrackIds, u \in BOOLEAN}
  \cup {update_tracks_index(FreshWorld, t, n, 0).default_value :
          t \in TrackIds, n \in {0, 2}}
  \cup {start_live_track(FreshWorld, t, 0).default_value : t \in TrackIds}
  \cup {remove_track(FreshWorld, t).default_value : t \in TrackIds}
  \cup {end_live_track(FreshWorld).default_value}

\* a DataExporter is constructed in a process that has made at most one
\* call on a DataExporter of another data_dir
InitShared ==
  /\ pc = "query"
  /\ tables = 0
  /\ posColumns = TRUE
  /\ records = <<>>
  /\ unread = <<>>
  /\ result = <<>>
  /\ result_type = "dict"
  /\ prev_values = None
  /\ cumulative_distance = 0
  /\ caught = "none"
  /\ interval = "10m"
  /\ calls = 0
  /\ ordering = "strict"
  /\ files \in InitialDirs
  /\ default_value \in OtherDirDefaults
  /\ now = 0
  /\ last_call = NoCall

SpecShared == InitShared /\ [][NextSessions]_vars

\* extend_track meets an I/O error on the track's file
ExtendTrackFails(track_id, update_index, io) ==
  /\ now < MaxOps
  /\ io # "none"
  /\ Returned([op |-> "extend_track", id |-> track_id,
               update_index |-> update_index,
               io |-> io, raised |-> FALSE],
              extend_track(World, track_id, <<Point(track_id, now + 1)>>,
                           update_index, now + 1, io))

\* calls and live sessions, with I/O errors on track files
NextFailures ==
  \/ NextSessions
  \/ \E t \in TrackIds, u \in BOOLEAN, io \in IOs :
       ExtendTrackFails(t, u, io)

SpecFailures == InitShared /\ [][NextFailures]_vars

----------------------------------------------------------------------------
(* Claims about DataExporter *)

\* the track has an entry in what tracks.json holds
Indexed(track_id) ==
  /\ files.tracks_file # None
  /\ \E i \in 1..Len(TracksOf(files.tracks_file[1])) :
       TracksOf(files.tracks_file[1])[i].id = track_id

\* update.json holds a live entry for the track
Live(track_id) ==
  /\ files.update_file # None
  /\ files.update_file[1].live # None
  /\ files.update_file[1].live[1].id = track_id

\* C20: after remove_track(track_id) has returned, the track's file does not
\* exist, tracks.json has no entry with the id and update.json has no live
\* entry with the id
C20_RemovedEverywhere ==
  \A t \in TrackIds :
    (last_call.op = "remove_track" /\ last_call.id = t)
      => /\ files.track[t] = None
         /\ ~Indexed(t)
         /\ ~Live(t)

\* the number of points in the file of the track, 0 without file or key
PointsIn(track_id) ==
  IF files.track[track_id] = None THEN 0
  ELSE IF files.track[track_id][1].points = None THEN 0
  ELSE Len(files.track[track_id][1].points[1])

\* the pointCount values that tracks.json shows for the track
IndexCounts(track_id) ==
  IF files.tracks_file = None THEN {}
  ELSE {TracksOf(files.tracks_file[1])[i].pointCount :
          i \in {j \in 1..Len(TracksOf(files.tracks_file[1])) :
                   TracksOf(files.tracks_file[1])[j].id = track_id}}

\* C21: while update.json holds a live entry for a track, tracks.json shows
\* pointCount 0 for the track and live.pointCount is the number of points in
\* the track's file, after every sequence of start_live_track,
\* extend_track(..., update_tracks_index=False) and end_live_track
C21_LiveCountIsReal ==
  \A t \in TrackIds :
    Live(t) => /\ IndexCounts(t) = {0}
               /\ files.update_file[1].live[1].pointCount = PointsIn(t)

\* update.json holds a live entry
HasLive ==
  /\ files.update_file # None
  /\ files.update_file[1].live # None

\* the step just taken was a call of the method op
Called(op) == now' = now + 1 /\ last_call'.op = op

\* C22: end_live_track, when update.json has a live entry, removes that entry
\* and sets the pointCount of the tracks.json entry of the live id to the live
\* pointCount, leaving everything else; without live entry it changes no
\* file; after it returns update.json has no live entry
C22_EndLiveTrack ==
  [][ Called("end_live_track")
      => /\ IF HasLive
              THEN LET live == files.update_file[1].live[1]
                   IN  /\ files'.update_file =
                            Some([files.update_file[1] EXCEPT !.live = None])
                       /\ files'.track = files.track
                       /\ IF files.tracks_file = None
                            THEN files'.tracks_file = None
                            ELSE
                              LET old == files.tracks_file[1] 
                                  new == files'.tracks_file[1]
                              IN  /\ files'.tracks_file # None
                                  /\ new.points = old.points
                                  /\ new.live = old.live
                                  /\ Len(TracksOf(new)) = Len(TracksOf(old))
                                  /\ \A i \in 1..Len(TracksOf(old)) :
                                       TracksOf(new)[i] =
                                         IF TracksOf(old)[i].id = live.id
                                           THEN [id |-> live.id,
                                                 pointCount |-> live.pointCount]
                                           ELSE TracksOf(old)[i]
              ELSE files' = files
         /\ ~HasLive' ]_vars

\* C23: every call that changes tracks.json also sets tracks.edited of
\* update.json to the time of the call, so tracks.edited is never older than
\* the latest change of tracks.json
C23_EditedFollowsIndex ==
  [][ files'.tracks_file # files.tracks_file
      => /\ files'.update_file # None
         /\ files'.update_file[1].tracks = Some(DictOf(now')) ]_vars

\* the entries that tracks.json holds, none without the file
IndexEntries ==
  IF files.tracks_file = None THEN <<>> ELSE TracksOf(files.tracks_file[1])

\* C24: after extend_track(track_id, points, update_tracks_index=True),
\* tracks.json has exactly one entry with the id, its pointCount is the
\* number of points now in the track's file, an entry that existed was
\* updated in place and a missing one was appended
C24_ExtendIndexesTrack ==
  [][ \A t \in TrackIds :
        (Called("extend_track") /\ last_call'.id = t
           /\ last_call'.update_index)
        => LET entry == [id |-> t, pointCount |-> PointsIn(t)']
           IN  /\ Cardinality({i \in 1..Len(IndexEntries') :
                                  IndexEntries'[i].id = t}) = 1
               /\ IF \E i \in 1..Len(IndexEntries) : IndexEntries[i].id = t
                    THEN /\ Len(IndexEntries') = Len(IndexEntries)
                         /\ \A i \in 1..Len(IndexEntries) :
                              IndexEntries'[i] =
                                IF IndexEntries[i].id = t
                                  THEN entry ELSE IndexEntries[i]
                    ELSE IndexEntries' = Append(IndexEntries, entry) ]_vars

\* the points that the file of the track holds, none without file or key
PointsOf(track_id) ==
  IF files.track[track_id] = None THEN <<>>
  ELSE IF files.track[track_id][1].points = None THEN <<>>
  ELSE files.track[track_id][1].points[1]

\* C25: extend_track is append-only on the track's file: after the call the
\* file's points are the points it held before, in the same order, followed
\* by points_data, and the other keys of the file are as before
C25_AppendOnly ==
  [][ \A t \in TrackIds :
        (Called("extend_track") /\ last_call'.id = t)
        => /\ files'.track[t] # None
           /\ PointsOf(t)' = PointsOf(t) \o <<Point(t, now')>>
           /\ files.track[t] # None
                => /\ files'.track[t][1].tracks = files.track[t][1].tracks
                   /\ files'.track[t][1].live = files.track[t][1].live ]_vars

----------------------------------------------------------------------------
(* Claims about the state of the loop of get_data *)

\* the loop iteration just taken discarded its record: the record has a
\* position, is off the grid, was not stored and raised nothing
Discarded ==
  /\ LoopStep
  /\ HasCoords(Last(records'))
  /\ ~on_grid(Last(records').time)
  /\ pc' = "records"
  /\ result' = result

\* the records of the input whose timestamp is in the returned track
RetainedInput ==
  SelectSeq(records,
            LAMBDA r : \E i \in 1..Len(result) : result[i].timestamp = r.time)

\* C26: a discarded record changes neither the last kept record nor the
\* cumulative distance, so the track returned for an input is the track
\* returned for the input without its discarded records
C26_DiscardedLeavesState ==
  /\ [][ Discarded => /\ prev_values' = prev_values
                      /\ cumulative_distance' = cumulative_distance ]_vars
  /\ [] ( (pc = "returned" /\ tables = 1 /\ result_type = "list")
            => result = GetData(RetainedInput) )

\* the COG measurement of a record, None when it has none
CogOf(r) == r.values[measurements[2]]

\* C27: after a retained record, prev_values is that record as it was
\* stored (a partial point has position and COG only); an off-grid record
\* is stored exactly when it and the most recently stored point both carry
\* COG and the two differ by more than the threshold, whatever the records
\* between them were; after a full point without COG every off-grid record
\* is dropped
C27_LastKeptIsRetainedForm ==
  /\ [] ( (pc = "records" /\ prev_values # None)
            => /\ Len(result) > 0
               /\ prev_values = Some(Last(result).data) )
  /\ [][ (LoopStep /\ HasCoords(Last(records')) /\ prev_values # None
            /\ ~on_grid(Last(records').time))
         => LET r == Last(records')
                kept == Last(result).data
            IN  /\ Stored <=> /\ CogOf(r) # None
                              /\ "COG" \in DOMAIN kept
                              /\ Abs(CogOf(r)[1] - kept["COG"]) > Threshold
                /\ Stored =>
                     /\ Last(result').ts = r.time
                     /\ Last(result').data =
                          [k \in {"position", "COG"} |->
                             IF k = "COG" THEN CogOf(r)[1]
                             ELSE [lat |-> r.values[LAT],
                                   lng |-> r.values[LON]]]
                     /\ prev_values' = Some(Last(result').data)
                /\ ~Stored => /\ result' = result
                              /\ prev_values' = prev_values ]_vars

\* C27 witness: after the full point 00:00:00 with COG 0 and the partial
\* point 00:03:00 with COG 20 deg, the record 00:10:30 with COG 0 was stored:
\* it differs from the partial point, not from the last on-grid point
C27_Witness ==
  /\ pc = "records"
  /\ Len(records) = 3
  /\ Len(result) = 3
  /\ on_grid(result[1].ts)
  /\ "COG" \in DOMAIN result[1].data
  /\ result[1].data["COG"] = 0
  /\ DOMAIN result[2].data = {"position", "COG"}
  /\ result[2].data["COG"] = 349066
  /\ DOMAIN result[3].data = {"position", "COG"}
  /\ result[3].data["COG"] = 0
  /\ prev_values = Some(result[3].data)

----------------------------------------------------------------------------
(* Claims about sequences of DataExporter calls *)

\* tracks.json and the file of the track agree: the entry of the track shows
\* the number of points of the file; a track without entry has no points
Agrees(track_id) ==
  IF IndexCounts(track_id) = {}
    THEN PointsIn(track_id) = 0
    ELSE IndexCounts(track_id) = {PointsIn(track_id)}

\* C28: from a state where tracks.json and the file of a track agree, a
\* complete live session of the track (start_live_track, k >= 0 calls of
\* extend_track with update_tracks_index=False, end_live_track) ends with no
\* live entry in update.json and with the pointCount of the track in
\* tracks.json equal to the number of points in the track's file
C28_SessionKeepsIndex ==
  [][ \A t \in TrackIds :
        (last_call'.op = "live_session" /\ last_call'.id = t
           /\ now' > now /\ Agrees(t))
        => /\ ~HasLive'
           /\ IndexCounts(t)' = {PointsIn(t)'} ]_vars

\* C29: a missing file is read as an empty mapping whatever was called
\* before: extend_track on a track without file writes a file whose only
\* content is the points of the call, and update_tracks_index without
\* tracks.json writes a tracks.json with the tracks key only
C29_MissingFileReadsEmpty ==
  [][ /\ \A t \in TrackIds :
           (Called("extend_track") /\ last_call'.id = t
              /\ files.track[t] = None)
           => files'.track[t] =
                Some([EmptyDoc EXCEPT !.points = Some(<<Point(t, now')>>)])
      /\ (Called("update_tracks_index") /\ files.tracks_file = None)
           => /\ files'.tracks_file # None
              /\ files'.tracks_file[1].points = None
              /\ files'.tracks_file[1].live = None ]_vars

\* C30: for every track that is not the live track, the pointCount in
\* tracks.json is the number of points in the track's file, after any
\* sequence of extend_track, start_live_track, end_live_track and
\* remove_track
C30_IndexMatchesFiles ==
  \A t \in TrackIds : ~Live(t) => Agrees(t)

\* C31: tracks.json, which starts without two entries of one id, has no
\* two entries of one id after any sequence of update_tracks_index,
\* extend_track, start_live_track, end_live_track and remove_track
C31_UniqueTrackIds ==
  \A i, j \in 1..Len(IndexEntries) :
    i # j => IndexEntries[i].id # IndexEntries[j].id

\* C31 witness: track A was removed from the index, track B was entered, and
\* update_tracks_index then entered A again, behind B
C31_Witness ==
  /\ last_call = Call("update_tracks_index", "A")
  /\ now >= 3
  /\ Len(IndexEntries) = 2
  /\ IndexEntries[1].id = "B"
  /\ IndexEntries[2] = [id |-> "A", pointCount |-> 2]


\* C32: extend_track(track_id, points, update_tracks_index=False) leaves
\* tracks.json as it is; when update.json has a live entry of track_id it
\* changes only the pointCount of that entry, to the number of points now in
\* the track's file; otherwise it leaves update.json as it is; in both cases
\* the track's file is extended
C32_LiveExtendFrame ==
  [][ \A t \in TrackIds :
        (Called("extend_track") /\ last_call'.id = t
           /\ ~last_call'.update_index)
        => /\ files'.tracks_file = files.tracks_file
           /\ files'.update_file =
                IF Live(t)
                  THEN Some([files.update_file[1] EXCEPT
                               !.live[1].pointCount = PointsIn(t)'])
                  ELSE files.update_file
           /\ Len(PointsOf(t)') > Len(PointsOf(t))
           /\ Last(PointsOf(t)') = Point(t, now') ]_vars


\* C33: extend_track does not raise to its caller, and when reading or
\* writing the track's file fails, tracks.json and update.json are as before
\* the call
C33_FailureLeavesIndex ==
  [][ Called("extend_track")
      => /\ ~last_call'.raised
         /\ last_call'.io # "none"
              => /\ files'.tracks_file = files.tracks_file
                 /\ files'.update_file = files.update_file ]_vars

\* C33 witness: in the data_dir that holds track A with 1 point, indexed,
\* extend_track of A failed in json.dump: the call returned, A.json is no
\* longer decodable and the index shows 1 point as before
C33_Witness ==
  /\ last_call.op = "extend_track"
  /\ last_call.id = "A"
  /\ last_call.io = "dump"
  /\ ~last_call.raised
  /\ now = 1
  /\ files.track["A"] = None
  /\ IndexEntries = <<[id |-> "A", pointCount |-> 1]>>
  /\ files.update_file = Some([EmptyDoc EXCEPT !.tracks = Some(DictOf(0))])

====
